---- MODULE Spec2Model ----
(***************************************************************************)
(* Model of query-algebrizer/src/clauses/convert.rs:                       *)
(* ConjoiningClauses::typed_value_from_arg, the conversion of a FnArg to   *)
(* a TypedValue under the known types of the variable it will be bound to. *)
(*                                                                         *)
(* Values are tagged tuples: <<tag, payload>>.  A call reads the schema,   *)
(* the declared input variables and the value bindings of the              *)
(* ConjoiningClauses and produces Ok(Val), Ok(Impossible), an error or a   *)
(* panic.                                                                  *)
(***************************************************************************)
EXTENDS Integers, Sequences, FiniteSets, TLC

\* ---------------------------------------------------------------- bounds
\* Integer literals of EntidOrInteger range over -MaxInt..MaxInt.
MaxInt == 1

\* known_types ranges over the sets of at most MaxTypes value types, and any().
MaxTypes == 2

\* ------------------------------------------------------------ value model
ValueTypes == {"Ref", "Boolean", "Instant", "Long", "Double", "String", "Keyword", "Uuid"}

of_one(t) == {t}

of_longs == {"Ref", "Long"}

of_keywords == {"Ref", "Keyword"}

any == ValueTypes

is_empty(types) == types = {}

contains(types, t) == t \in types

\* ValueType::Ref.accommodates_integer(x): entids are the non-negative integers.
accommodates_integer(x) == x >= 0

TypedValue(tag, payload) == <<tag, payload>>

\* The ValueType of a TypedValue is its variant.
value_type(tv) == tv[1]

\* ------------------------------------------------------------- arguments
Variables == {"?x", "?y"}

Idents == {"foo", "bar"}

Entids == {65, 66}

Ints == (0 - MaxInt)..MaxInt

EntidOrInteger(x) == <<"EntidOrInteger", x>>

IdentOrKeyword(x) == <<"IdentOrKeyword", x>>

Variable(v) == <<"Variable", v>>

Constant(nic, x) == <<"Constant", <<nic, x>>>>

Vector == <<"Vector", <<>>>>

SrcVar == <<"SrcVar", "$">>

NonIntegerConstants ==
    ({"Boolean"} \X BOOLEAN)
    \cup ({"Instant"} \X {"2017-01-01"})
    \cup ({"Uuid"} \X {"u-0"})
    \cup ({"Float"} \X {0, 1})
    \cup ({"Text"} \X {"foo", "bar"})
    \cup ({"BigInteger"} \X {"big"})

FnArgs ==
    {EntidOrInteger(x) : x \in Ints}
    \cup {IdentOrKeyword(x) : x \in Idents}
    \cup {Variable(v) : v \in Variables}
    \cup {<<"Constant", c>> : c \in NonIntegerConstants}
    \cup {Vector, SrcVar}

KnownTypeSets == {s \in SUBSET ValueTypes : Cardinality(s) <= MaxTypes} \cup {any}

\* Values a variable can have been bound to before the call.
BoundValues == {TypedValue("Long", 0), TypedValue("Keyword", "foo")}

PartialMaps(D, R) == UNION {[d -> R] : d \in SUBSET D}

\* --------------------------------------------------------------- results
NotCalled == <<"NotCalled">>

Val(tv) == <<"Val", tv>>

Impossible(because) == <<"Impossible", because>>

TypeMismatch(v, existing, desired) == <<"TypeMismatch", v, existing, desired>>

UnresolvedIdent(x) == <<"UnresolvedIdent", x>>

Ok(conversion) == <<"Ok", conversion>>

Err(kind) == <<"Err", kind>>

UnboundVariable(name) == <<"UnboundVariable", name>>

InvalidGroundConstant == <<"InvalidGroundConstant">>

Panic == <<"Panic", "not yet implemented">>

\* What one evaluation yields: the returned value and the idents that were
\* passed to Schema::get_entid on the way.
Outcome(r, looked) == [result |-> r, lookups |-> looked]

VARIABLES schema, input_variables, value_bindings, var, arg, known_types, ret, lookups

vars == <<schema, input_variables, value_bindings, var, arg, known_types, ret, lookups>>

\* Schema::get_entid: Some(entid) or None.
get_entid(x) == IF x \in DOMAIN schema THEN <<"Some", schema[x]>> ELSE <<"None">>

\* ConjoiningClauses::bound_value: Some(value) or None.
bound_value(v) == IF v \in DOMAIN value_bindings THEN <<"Some", value_bindings[v]>> ELSE <<"None">>

\* Variant: existing and desired swapped in the mismatch.
coerce_swapped(v, val, types, type, constructor) ==
    IF ~contains(types, type)
    THEN Outcome(Ok(Impossible(TypeMismatch(v, of_one(type), types))), <<>>)
    ELSE Outcome(Ok(Val(TypedValue(constructor, val))), <<>>)

\* Variant: the membership test inverted.
coerce_inverted(v, val, types, type, constructor) ==
    IF contains(types, type)
    THEN Outcome(Ok(Impossible(TypeMismatch(v, types, of_one(type)))), <<>>)
    ELSE Outcome(Ok(Val(TypedValue(constructor, val))), <<>>)

\* coerce_to_typed_value!($var, $val, $types, $type, $constructor)
coerce_to_typed_value(v, val, types, type, constructor) ==
    IF ~contains(types, type)
    THEN Outcome(Ok(Impossible(TypeMismatch(v, types, of_one(type)))), <<>>)
    ELSE Outcome(Ok(Val(TypedValue(constructor, val))), <<>>)

\* Variant: the ambiguous case defaults to Ref.
arm_EntidOrInteger_default_ref(v, x, types) ==
    LET a == accommodates_integer(x)
        r == contains(types, "Ref")
        l == contains(types, "Long")
    IN  CASE a /\ r /\ l -> Outcome(Ok(Val(TypedValue("Ref", x))), <<>>)
          [] a /\ r /\ ~l -> Outcome(Ok(Val(TypedValue("Ref", x))), <<>>)
          [] ~r /\ l -> Outcome(Ok(Val(TypedValue("Long", x))), <<>>)
          [] ~a /\ r -> Outcome(Ok(Impossible(TypeMismatch(v, types, of_longs))), <<>>)
          [] ~r /\ ~l -> Outcome(Ok(Impossible(TypeMismatch(v, types, of_longs))), <<>>)

\* Variant: the "only a long" arm matches (_, _, true), so an integer that is
\* no valid ref falls back to Long when Long is admissible.
arm_EntidOrInteger_long_fallback(v, x, types) ==
    LET a == accommodates_integer(x)
        r == contains(types, "Ref")
        l == contains(types, "Long")
    IN  CASE a /\ r /\ l -> Outcome(Ok(Val(TypedValue("Long", x))), <<>>)
          [] a /\ r /\ ~l -> Outcome(Ok(Val(TypedValue("Ref", x))), <<>>)
          [] ~(a /\ r) /\ l -> Outcome(Ok(Val(TypedValue("Long", x))), <<>>)
          [] ~a /\ r /\ ~l -> Outcome(Ok(Impossible(TypeMismatch(v, types, of_longs))), <<>>)
          [] ~r /\ ~l -> Outcome(Ok(Impossible(TypeMismatch(v, types, of_longs))), <<>>)

\* FnArg::EntidOrInteger(x) => match (accommodates, has Ref, has Long)
arm_EntidOrInteger(v, x, types) ==
    LET a == accommodates_integer(x)
        r == contains(types, "Ref")
        l == contains(types, "Long")
    IN  CASE a /\ r /\ l -> Outcome(Ok(Val(TypedValue("Long", x))), <<>>)
          [] a /\ r /\ ~l -> Outcome(Ok(Val(TypedValue("Ref", x))), <<>>)
          [] ~r /\ l -> Outcome(Ok(Val(TypedValue("Long", x))), <<>>)
          [] ~a /\ r -> Outcome(Ok(Impossible(TypeMismatch(v, types, of_longs))), <<>>)
          [] ~r /\ ~l -> Outcome(Ok(Impossible(TypeMismatch(v, types, of_longs))), <<>>)

\* Variant: the ambiguous case looks the ident up and prefers the entid.
arm_IdentOrKeyword_lookup_first(v, x, types) ==
    LET r == contains(types, "Ref")
        k == contains(types, "Keyword")
    IN  CASE r /\ k ->
                LET e == get_entid(x)
                IN  IF e[1] = "Some"
                    THEN Outcome(Ok(Val(TypedValue("Ref", e[2]))), <<x>>)
                    ELSE Outcome(Ok(Val(TypedValue("Keyword", x))), <<x>>)
          [] r /\ ~k ->
                LET e == get_entid(x)
                IN  IF e[1] = "Some"
                    THEN Outcome(Ok(Val(TypedValue("Ref", e[2]))), <<x>>)
                    ELSE Outcome(Ok(Impossible(UnresolvedIdent(x))), <<x>>)
          [] ~r /\ k -> Outcome(Ok(Val(TypedValue("Keyword", x))), <<>>)
          [] ~r /\ ~k -> Outcome(Ok(Impossible(TypeMismatch(v, types, of_keywords))), <<>>)

\* Variant: a catalog miss is reported as a type mismatch.
arm_IdentOrKeyword_miss_mismatch(v, x, types) ==
    LET r == contains(types, "Ref")
        k == contains(types, "Keyword")
    IN  CASE r /\ k -> Outcome(Ok(Val(TypedValue("Keyword", x))), <<>>)
          [] r /\ ~k ->
                LET e == get_entid(x)
                IN  IF e[1] = "Some"
                    THEN Outcome(Ok(Val(TypedValue("Ref", e[2]))), <<x>>)
                    ELSE Outcome(Ok(Impossible(TypeMismatch(v, types, of_keywords))), <<x>>)
          [] ~r /\ k -> Outcome(Ok(Val(TypedValue("Keyword", x))), <<>>)
          [] ~r /\ ~k -> Outcome(Ok(Impossible(TypeMismatch(v, types, of_keywords))), <<>>)

\* FnArg::IdentOrKeyword(x) => match (has Ref, has Keyword)
arm_IdentOrKeyword(v, x, types) ==
    LET r == contains(types, "Ref")
        k == contains(types, "Keyword")
    IN  CASE r /\ k -> Outcome(Ok(Val(TypedValue("Keyword", x))), <<>>)
          [] r /\ ~k ->
                LET e == get_entid(x)
                IN  IF e[1] = "Some"
                    THEN Outcome(Ok(Val(TypedValue("Ref", e[2]))), <<x>>)
                    ELSE Outcome(Ok(Impossible(UnresolvedIdent(x))), <<x>>)
          [] ~r /\ k -> Outcome(Ok(Val(TypedValue("Keyword", x))), <<>>)
          [] ~r /\ ~k -> Outcome(Ok(Impossible(TypeMismatch(v, types, of_keywords))), <<>>)

\* Variant: the input_variables test is missing.
arm_Variable_no_input_check(v, in_var, types) ==
    LET b == bound_value(in_var)
    IN  IF b[1] = "Some"
        THEN Outcome(Ok(Val(b[2])), <<>>)
        ELSE Outcome(Err(UnboundVariable(in_var)), <<>>)

\* FnArg::Variable(in_var)
arm_Variable(v, in_var, types) ==
    IF in_var \notin input_variables
    THEN Outcome(Err(UnboundVariable(in_var)), <<>>)
    ELSE LET b == bound_value(in_var)
         IN  IF b[1] = "Some"
             THEN Outcome(Ok(Val(b[2])), <<>>)
             ELSE Outcome(Err(UnboundVariable(in_var)), <<>>)

\* FnArg::Constant(NonIntegerConstant::BigInteger(_)) => unimplemented!()
arm_BigInteger(v, types) == Outcome(Panic, <<>>)

\* Variant: Vector and SrcVar share the unimplemented arm.
arm_Vector_SrcVar_unimplemented(v, types) == Outcome(Panic, <<>>)

\* FnArg::Vector(_) | FnArg::SrcVar(_) => bail!(InvalidGroundConstant)
arm_Vector_SrcVar(v, types) == Outcome(Err(InvalidGroundConstant), <<>>)

\* FnArg::Constant(Boolean | Instant | Uuid | Float | Text)
arm_Constant(v, c, types) ==
    CASE c[1] = "Boolean" -> coerce_to_typed_value(v, c[2], types, "Boolean", "Boolean")
      [] c[1] = "Instant" -> coerce_to_typed_value(v, c[2], types, "Instant", "Instant")
      [] c[1] = "Uuid" -> coerce_to_typed_value(v, c[2], types, "Uuid", "Uuid")
      [] c[1] = "Float" -> coerce_to_typed_value(v, c[2], types, "Double", "Double")
      [] c[1] = "Text" -> coerce_to_typed_value(v, c[2], types, "String", "String")

\* match arg { ... }
match_arg(v, a, types) ==
    CASE a[1] = "EntidOrInteger" -> arm_EntidOrInteger(v, a[2], types)
      [] a[1] = "IdentOrKeyword" -> arm_IdentOrKeyword(v, a[2], types)
      [] a[1] = "Variable" -> arm_Variable(v, a[2], types)
      [] a[1] = "Constant" /\ a[2][1] = "BigInteger" -> arm_BigInteger(v, types)
      [] a[1] \in {"Vector", "SrcVar"} -> arm_Vector_SrcVar(v, types)
      [] a[1] = "Constant" /\ a[2][1] # "BigInteger" -> arm_Constant(v, a[2], types)

\* Variant: no early return on an empty known_types.
conversion_no_empty_check(v, a, types) == match_arg(v, a, types)

\* The value of typed_value_from_arg(schema, var, arg, known_types).
conversion(v, a, types) ==
    IF is_empty(types)
    THEN Outcome(Ok(Impossible(TypeMismatch(v, types, any))), <<>>)
    ELSE match_arg(v, a, types)

\* ------------------------------------------------------------ the machine
\* The call's environment and arguments.  input_variables and value_bindings
\* are read independently (lines 145 and 148), so a variable may carry a
\* binding without being a declared input.
Init ==
    /\ schema \in PartialMaps(Idents, Entids)
    /\ input_variables \in SUBSET Variables
    /\ value_bindings \in PartialMaps(Variables, BoundValues)
    /\ var \in Variables
    /\ arg \in FnArgs
    /\ known_types \in KnownTypeSets
    /\ ret = NotCalled
    /\ lookups = <<>>

\* Variant: a successful conversion also grounds var in the value bindings.
typed_value_from_arg_binding ==
    LET out == conversion(var, arg, known_types)
    IN  /\ ret' = out.result
        /\ lookups' = out.lookups
        /\ value_bindings' =
              IF out.result[1] = "Ok" /\ out.result[2][1] = "Val"
              THEN [w \in (DOMAIN value_bindings) \cup {var} |->
                       IF w = var THEN out.result[2][2] ELSE value_bindings[w]]
              ELSE value_bindings
        /\ UNCHANGED <<schema, input_variables, var, arg, known_types>>

\* One call: &self and &Schema are shared borrows and known_types is passed
\* by value, so only the returned value is new.
typed_value_from_arg ==
    /\ ret' = conversion(var, arg, known_types).result
    /\ lookups' = conversion(var, arg, known_types).lookups
    /\ UNCHANGED <<schema, input_variables, value_bindings, var, arg, known_types>>

Next == typed_value_from_arg

Spec == Init /\ [][Next]_vars

\* ---------------------------------------------------------------- claims
Called == ret # NotCalled

IsVal == ret[1] = "Ok" /\ ret[2][1] = "Val"

IsImpossible == ret[1] = "Ok" /\ ret[2][1] = "Impossible"

\* The value type an unambiguous constant corresponds to.
ConstantType(nic) ==
    CASE nic = "Boolean" -> "Boolean"
      [] nic = "Instant" -> "Instant"
      [] nic = "Uuid" -> "Uuid"
      [] nic = "Float" -> "Double"
      [] nic = "Text" -> "String"

Unambiguous == {"Boolean", "Instant", "Uuid", "Float", "Text"}

\* C1: with an empty known_types every argument shape yields
\* Ok(Impossible(TypeMismatch{var, existing: {}, desired: any()})), and
\* get_entid is not called.
C1_EmptyKnownTypes ==
    (Called /\ known_types = {}) =>
        /\ ret = Ok(Impossible(TypeMismatch(var, {}, any)))
        /\ lookups = <<>>

C1_Witness ==
    /\ Called
    /\ known_types = {}
    /\ arg[1] = "Variable"
    /\ arg[2] \notin input_variables
    /\ IsImpossible

\* C2: an integer literal within the reference range, with Ref and Long both
\* known, converts to Val(Long(x)).
C2_AmbiguousIntegerIsLong ==
    (Called /\ arg[1] = "EntidOrInteger" /\ accommodates_integer(arg[2])
        /\ {"Ref", "Long"} \subseteq known_types) =>
        ret = Ok(Val(TypedValue("Long", arg[2])))

C2_Witness ==
    /\ Called
    /\ arg = EntidOrInteger(1)
    /\ known_types = any
    /\ ret = Ok(Val(TypedValue("Long", 1)))

\* C3: an integer literal outside the reference range, with Ref known, is
\* Impossible(TypeMismatch{var, existing: known_types, desired: of_longs()}),
\* with or without Long.
C3_OutOfRangeWithRef ==
    (Called /\ arg[1] = "EntidOrInteger" /\ ~accommodates_integer(arg[2])
        /\ "Ref" \in known_types) =>
        ret = Ok(Impossible(TypeMismatch(var, known_types, of_longs)))

C3_Witness ==
    /\ Called
    /\ arg = EntidOrInteger(0 - 1)
    /\ {"Ref", "Long"} \subseteq known_types
    /\ IsImpossible

\* C4: an ident with Keyword known converts to Val(Keyword(x)) and get_entid
\* is not called, whether or not the schema knows x.
C4_KeywordWithoutLookup ==
    (Called /\ arg[1] = "IdentOrKeyword" /\ "Keyword" \in known_types) =>
        /\ ret = Ok(Val(TypedValue("Keyword", arg[2])))
        /\ lookups = <<>>

C4_Witness ==
    /\ Called
    /\ arg[1] = "IdentOrKeyword"
    /\ {"Ref", "Keyword"} \subseteq known_types
    /\ arg[2] \in DOMAIN schema
    /\ IsVal

\* C5: an ident with Ref known and Keyword not converts to Val(Ref(e)) when
\* the schema maps x to e, and to Ok(Impossible(UnresolvedIdent(x))) when the
\* schema has no entry for x.
C5_IdentLookup ==
    (Called /\ arg[1] = "IdentOrKeyword" /\ "Ref" \in known_types
        /\ "Keyword" \notin known_types) =>
        IF arg[2] \in DOMAIN schema
        THEN ret = Ok(Val(TypedValue("Ref", schema[arg[2]])))
        ELSE ret = Ok(Impossible(UnresolvedIdent(arg[2])))

C5_Witness ==
    /\ Called
    /\ arg = IdentOrKeyword("bar")
    /\ known_types = {"Ref"}
    /\ "bar" \notin DOMAIN schema
    /\ "foo" \in DOMAIN schema
    /\ ret = Ok(Impossible(UnresolvedIdent("bar")))

\* C6: a Variable argument with non-empty known_types converts to
\* Val(bound value) exactly when the variable is a declared input with a bound
\* value, and fails with UnboundVariable(name) otherwise.
C6_VariableArgument ==
    (Called /\ arg[1] = "Variable" /\ known_types # {}) =>
        IF arg[2] \in input_variables /\ arg[2] \in DOMAIN value_bindings
        THEN ret = Ok(Val(value_bindings[arg[2]]))
        ELSE ret = Err(UnboundVariable(arg[2]))

C6_Witness ==
    /\ Called
    /\ arg[1] = "Variable"
    /\ known_types # {}
    /\ arg[2] \notin input_variables
    /\ arg[2] \in DOMAIN value_bindings
    /\ ret = Err(UnboundVariable(arg[2]))

\* C7: an unambiguous constant of type T with non-empty known_types converts
\* to Val of the T variant with the literal's payload when T is known, and to
\* Impossible(TypeMismatch{var, existing: known_types, desired: of_one(T)})
\* otherwise.
C7_UnambiguousConstant ==
    (Called /\ arg[1] = "Constant" /\ arg[2][1] \in Unambiguous /\ known_types # {}) =>
        LET T == ConstantType(arg[2][1])
        IN  IF T \in known_types
            THEN ret = Ok(Val(TypedValue(T, arg[2][2])))
            ELSE ret = Ok(Impossible(TypeMismatch(var, known_types, of_one(T))))

C7_Witness ==
    /\ Called
    /\ arg = Constant("Boolean", TRUE)
    /\ known_types = {"String"}
    /\ ret = Ok(Impossible(TypeMismatch(var, {"String"}, {"Boolean"})))

\* C8: a Vector or SrcVar argument with non-empty known_types fails with
\* InvalidGroundConstant, whatever known_types contains.
C8_InvalidGroundConstant ==
    (Called /\ arg[1] \in {"Vector", "SrcVar"} /\ known_types # {}) =>
        ret = Err(InvalidGroundConstant)

C8_Witness ==
    /\ Called
    /\ arg = SrcVar
    /\ known_types = any
    /\ ret = Err(InvalidGroundConstant)

\* C9: a call leaves known_types, input_variables, value_bindings and the
\* schema as they were, and a call repeated on them returns what the call
\* before it returned.
C9_CallLeavesStateAlone ==
    [][/\ schema' = schema
       /\ input_variables' = input_variables
       /\ value_bindings' = value_bindings
       /\ known_types' = known_types
       /\ (Called => ret' = ret)]_vars

C9_Witness ==
    /\ Called
    /\ IsVal
    /\ var \notin DOMAIN value_bindings
    /\ var \notin input_variables

\* C10 as stated: whenever the call returns Val(v), the value type of v is
\* in known_types.
C10_ValTypeAlwaysKnown ==
    (Called /\ IsVal) => value_type(ret[2][2]) \in known_types

\* C10 amended: whenever a call whose argument is not a Variable returns
\* Val(v), the value type of v is in known_types.
C10_ValTypeKnownUnlessVariable ==
    (Called /\ IsVal /\ arg[1] # "Variable") => value_type(ret[2][2]) \in known_types

C10_Witness ==
    /\ Called
    /\ IsVal
    /\ arg[1] = "IdentOrKeyword"
    /\ value_type(ret[2][2]) = "Ref"
    /\ known_types # any

====
